---- MODULE Spec2Model ----
(***************************************************************************)
(* Model of the SAP monitoring agent of src/llm.py: the command registry   *)
(* and its validation, the (deprecated) JSON response interpreter, the     *)
(* tool executor and the bounded tool-calling loop of chat().              *)
(*                                                                         *)
(* Python values are represented as follows.                               *)
(*   str            a TLA+ string (TLC treats it as a sequence of chars)   *)
(*   None / value   <<>> / <<value>>  (Optional)                           *)
(*   dict str->str  a sequence of [k, v] records in insertion order        *)
(*   JSON value     a record tagged by t: "null", "bool", "int", "str",    *)
(*                  "list" (items), "dict" (items: sequence of [k, v])     *)
(*   a call result  [raised |-> FALSE, value |-> v] or                     *)
(*                  [raised |-> TRUE, exc |-> class name, text |-> str(e)] *)
(***************************************************************************)
EXTENDS Integers, Sequences, FiniteSets, TLC

VARIABLES
    chat_history,    \* the caller-owned list passed to chat()
    messages,        \* chat(): the working copy of the conversation
    final_response,  \* chat(): None (<<>>) or <<str>>
    step,            \* chat(): the loop variable of `for step in range(max_steps)`
    max_steps,       \* chat(): the argument
    tool_calls,      \* chat(): the tool calls of the current LLM response
    tc_idx,          \* chat(): position of the inner `for tool_call in tool_calls`
    pc,              \* chat(): control position
    returned,        \* chat(): None until return, then <<the returned str>>
    outcome,         \* which assignment to final_response was executed
    history0,        \* chat_history as it was when chat() was called
    trace,           \* log of the external calls made (llm.invoke, requests.post)
    call,            \* the pure function under test and its arguments
    ret              \* its result

vars == <<chat_history, messages, final_response, step, max_steps, tool_calls,
          tc_idx, pc, returned, outcome, history0, trace, call, ret>>

chatVars == <<chat_history, messages, final_response, step, max_steps, tool_calls,
              tc_idx, pc, returned, outcome, history0, trace>>

-----------------------------------------------------------------------------
(* Bounds of the model *)

MaxSteps == 2

MaxToolCalls == 3

MaxParams == 2

\* the user turns of one interactive session
MaxTurns == 12

-----------------------------------------------------------------------------
(* Python values *)

None == <<>>

Some(v) == <<v>>

Returned(v) == [raised |-> FALSE, value |-> v]

Raised(exc, text) == [raised |-> TRUE, exc |-> exc, text |-> text]

Range(s) == {s[i] : i \in DOMAIN s}

Ch(s, i) == IF i >= 1 /\ i <= Len(s) THEN SubSeq(s, i, i) ELSE ""

Contains(s, t) == \E i \in 1..(Len(s) - Len(t) + 1) : SubSeq(s, i, i + Len(t) - 1) = t

At(s, i, t) == i + Len(t) - 1 <= Len(s) /\ SubSeq(s, i, i + Len(t) - 1) = t

StartsWith(s, t) == Len(s) >= Len(t) /\ SubSeq(s, 1, Len(t)) = t

DictKeys(d) == {d[i].k : i \in DOMAIN d}

DictHas(d, k) == \E i \in DOMAIN d : d[i].k = k

DictGet(d, k) == IF DictHas(d, k) THEN Some(d[CHOOSE i \in DOMAIN d : d[i].k = k].v) ELSE None

DictSet(d, k, v) ==
    IF DictHas(d, k)
    THEN [i \in DOMAIN d |-> IF d[i].k = k THEN [k |-> k, v |-> v] ELSE d[i]]
    ELSE Append(d, [k |-> k, v |-> v])

RECURSIVE JoinStr(_, _)
JoinStr(parts, sep) ==
    IF parts = <<>> THEN ""
    ELSE IF Len(parts) = 1 THEN parts[1]
    ELSE parts[1] \o sep \o JoinStr(Tail(parts), sep)

\* repr() of a dict of str -> str, as an f-string renders "{params}"
PyRepr(d) ==
    "{" \o JoinStr([i \in DOMAIN d |-> "'" \o d[i].k \o "': '" \o d[i].v \o "'"], ", ") \o "}"

\* str() of an Optional[str], as an f-string renders "{server}"
PyStr(opt) == IF opt = None THEN "None" ELSE opt[1]

-----------------------------------------------------------------------------
(* JSON values, json.loads and json.dumps *)

JNull == [t |-> "null"]

JBool(b) == [t |-> "bool", b |-> b]

JInt(s) == [t |-> "int", s |-> s]

JStr(s) == [t |-> "str", s |-> s]

JList(items) == [t |-> "list", items |-> items]

JDict(items) == [t |-> "dict", items |-> items]

IsWs(c) == c \in {" ", "\t", "\n", "\r"}

IsDigit(c) == c \in {"0", "1", "2", "3", "4", "5", "6", "7", "8", "9"}

RECURSIVE SkipWs(_, _)
SkipWs(s, i) == IF IsWs(Ch(s, i)) THEN SkipWs(s, i + 1) ELSE i

RECURSIVE ScanDigits(_, _)
ScanDigits(s, i) == IF IsDigit(Ch(s, i)) THEN ScanDigits(s, i + 1) ELSE i

\* index of the closing quote of the string literal whose body starts at i, 0 if unterminated
RECURSIVE ScanString(_, _)
ScanString(s, i) ==
    IF i > Len(s) THEN 0
    ELSE IF Ch(s, i) = "\"" THEN i
    ELSE IF Ch(s, i) \in {"\\", "\n", "\t", "\r"} THEN 0
    ELSE ScanString(s, i + 1)

ParseFail(i) == [ok |-> FALSE, val |-> JNull, pos |-> i]

ParseOk(v, i) == [ok |-> TRUE, val |-> v, pos |-> i]

ParseNumber(s, i) ==
    LET d == IF Ch(s, i) = "-" THEN i + 1 ELSE i
        e == IF Ch(s, d) = "0" THEN d + 1 ELSE ScanDigits(s, d)
    IN  IF e = d THEN ParseFail(i) ELSE ParseOk(JInt(SubSeq(s, i, e - 1)), e)

ParseString(s, i) ==
    LET e == ScanString(s, i + 1)
    IN  IF Ch(s, i) # "\"" \/ e = 0 THEN ParseFail(i)
        ELSE ParseOk(JStr(SubSeq(s, i + 1, e - 1)), e + 1)

RECURSIVE ParseValue(_, _)
RECURSIVE ParseItems(_, _, _)
RECURSIVE ParseMembers(_, _, _)

\* the items of an array after "[" or ",": value ws ("," ws items | "]")
ParseItems(s, i, acc) ==
    LET v == ParseValue(s, i)
        j == SkipWs(s, v.pos)
    IN  IF ~v.ok THEN ParseFail(i)
        ELSE IF Ch(s, j) = "]" THEN ParseOk(JList(Append(acc, v.val)), j + 1)
        ELSE IF Ch(s, j) = "," THEN ParseItems(s, SkipWs(s, j + 1), Append(acc, v.val))
        ELSE ParseFail(j)

\* the members of an object after "{" or ",": string ws ":" ws value ws ("," ws members | "}")
ParseMembers(s, i, acc) ==
    LET k == ParseString(s, i)
        c == SkipWs(s, k.pos)
        v == ParseValue(s, SkipWs(s, c + 1))
        j == SkipWs(s, v.pos)
    IN  IF ~k.ok \/ Ch(s, c) # ":" THEN ParseFail(i)
        ELSE IF ~v.ok THEN ParseFail(c)
        ELSE IF Ch(s, j) = "}" THEN ParseOk(JDict(DictSet(acc, k.val.s, v.val)), j + 1)
        ELSE IF Ch(s, j) = ","
             THEN ParseMembers(s, SkipWs(s, j + 1), DictSet(acc, k.val.s, v.val))
        ELSE ParseFail(j)

ParseValue(s, i) ==
    LET c == Ch(s, i)
    IN  IF c = "\"" THEN ParseString(s, i)
        ELSE IF c = "{"
             THEN IF Ch(s, SkipWs(s, i + 1)) = "}"
                  THEN ParseOk(JDict(<<>>), SkipWs(s, i + 1) + 1)
                  ELSE ParseMembers(s, SkipWs(s, i + 1), <<>>)
        ELSE IF c = "["
             THEN IF Ch(s, SkipWs(s, i + 1)) = "]"
                  THEN ParseOk(JList(<<>>), SkipWs(s, i + 1) + 1)
                  ELSE ParseItems(s, SkipWs(s, i + 1), <<>>)
        ELSE IF At(s, i, "null") THEN ParseOk(JNull, i + 4)
        ELSE IF At(s, i, "true") THEN ParseOk(JBool(TRUE), i + 4)
        ELSE IF At(s, i, "false") THEN ParseOk(JBool(FALSE), i + 5)
        ELSE IF c = "-" \/ IsDigit(c) THEN ParseNumber(s, i)
        ELSE ParseFail(i)

\* json.loads(s): the decoded value, or JSONDecodeError
JsonLoads(s) ==
    LET v == ParseValue(s, SkipWs(s, 1))
    IN  IF v.ok /\ SkipWs(s, v.pos) = Len(s) + 1
        THEN Returned(v.val)
        ELSE Raised("JSONDecodeError", "Expecting value")

RECURSIVE JsonDumps(_)
JsonDumps(v) ==
    CASE v.t = "null" -> "null"
      [] v.t = "bool" -> IF v.b THEN "true" ELSE "false"
      [] v.t = "int"  -> v.s
      [] v.t = "str"  -> "\"" \o v.s \o "\""
      [] v.t = "list" -> "[" \o JoinStr([i \in DOMAIN v.items |-> JsonDumps(v.items[i])], ", ") \o "]"
      [] v.t = "dict" ->
            "{" \o JoinStr([i \in DOMAIN v.items |->
                              "\"" \o v.items[i].k \o "\": " \o JsonDumps(v.items[i].v)], ", ") \o "}"

-----------------------------------------------------------------------------
(* The command registry *)

Pair(k, v) == [k |-> k, v |-> v]

COMMAND_SPECS ==
    [cpu_info |->
        [description |-> "Get current CPU usage",
         params |-> <<>>,
         required |-> <<>>],
     memory_info |->
        [description |-> "Get current memory usage",
         params |-> <<>>,
         required |-> <<>>],
     get_process_list |->
        [description |-> "Get list of running processes for a given instance",
         params |-> <<Pair("instance", "00"), Pair("filter", "SAP*"), Pair("limit", "50")>>,
         required |-> <<"instance">>],
     disk_usage |->
        [description |-> "Get disk usage stats for a path",
         params |-> <<Pair("path", "/hana"), Pair("threshold", "80")>>,
         required |-> <<"path">>]]

MONITORING_DOMAIN == "mybank.net"

\* `required_keys.issubset(provided_keys)` with a plausible slip: the test reversed
issubset_reversed(required_keys, provided_keys) == provided_keys \subseteq required_keys

issubset(required_keys, provided_keys) == required_keys \subseteq provided_keys

_validate_command(command, params) ==
    IF command \notin DOMAIN COMMAND_SPECS
    THEN FALSE
    ELSE LET spec == COMMAND_SPECS[command]
             required_keys == Range(spec.required)
             provided_keys == DictKeys(params)
         IN  issubset(required_keys, provided_keys)

-----------------------------------------------------------------------------
(* The response interpreter *)

\* `except json.JSONDecodeError`: the only exception class the handler catches
ParseCatches(exc) == exc = "JSONDecodeError"

_parse_json_response(response) ==
    LET loaded == JsonLoads(response)
    IN  IF loaded.raised
        THEN IF ParseCatches(loaded.exc) THEN Returned(None) ELSE loaded
        ELSE LET action == loaded.value
             IN  IF action.t # "dict"
                 THEN \* action.get: only a dict has the attribute
                      IF ParseCatches("AttributeError")
                      THEN Returned(None)
                      ELSE Raised("AttributeError", "object has no attribute 'get'")
                 ELSE IF /\ DictGet(action.items, "action") = Some(JStr("monitoring"))
                         /\ DictHas(action.items, "server")
                         /\ DictHas(action.items, "command")
                      THEN Returned(Some(action))
                      ELSE Returned(None)

-----------------------------------------------------------------------------
(* The tool executor *)

ErrorDict(text) == JDict(<<Pair("error", JStr(text))>>)

Url(server) == "http://" \o PyStr(server) \o "." \o MONITORING_DOMAIN \o ":8090/execute"

\* the request body with a plausible slip: the registry's defaults are filled in for the
\* optional parameters the request left out
PostWithDefaults(server, command, params) ==
    [ev |-> "post", url |-> Url(server), name |-> command,
     params |-> params \o SelectSeq(COMMAND_SPECS[command].params,
                                    LAMBDA kv : ~DictHas(params, kv.k)),
     timeout |-> 5]

Post(server, command, params) ==
    [ev |-> "post", url |-> Url(server), name |-> command, params |-> params, timeout |-> 5]

\* requests.post(...) then response.json(): what the remote agent's behaviour makes of them
ResponseJson(remote) ==
    IF remote.kind # "response"
    THEN Raised(remote.kind, remote.text)
    ELSE JsonLoads(remote.body)

\* `except Exception` with a plausible slip: only the connection-level faults are caught
ApiCatchesTransportOnly(exc) == exc \in {"ConnectionError", "Timeout"}

\* `except Exception` with a plausible slip: `except ValueError`, which is the class of
\* the JSON decoding error only
ApiCatchesValueError(exc) == exc = "JSONDecodeError"

\* `except Exception`: every exception class is caught
ApiCatches(exc) == TRUE

\* the executor's result, with the outbound calls it issued
_call_agent_api(server, command, params, remote) ==
    LET r == ResponseJson(remote)
        posts == <<Post(server, command, params)>>
    IN  IF ~r.raised THEN [raised |-> FALSE, value |-> r.value, posts |-> posts]
        ELSE IF ApiCatches(r.exc)
             THEN [raised |-> FALSE, value |-> ErrorDict(r.text), posts |-> posts]
             ELSE [raised |-> TRUE, exc |-> r.exc, text |-> r.text, posts |-> posts]

\* `if not self._validate_command(...)` with a plausible slip: the check is skipped
ParamsRejectedNever(command, params) == FALSE

ParamsRejected(command, params) == ~_validate_command(command, params)

_execute_tool_call(tool_call, remote) ==
    LET function_name == tool_call.name
        function_args == tool_call.args
        command == function_name
        server == DictGet(function_args, "server")
        params == SelectSeq(function_args, LAMBDA kv : kv.k # "server")
    IN  IF command \notin DOMAIN COMMAND_SPECS
        THEN [raised |-> FALSE, value |-> ErrorDict("Unknown command: " \o command),
              posts |-> <<>>]
        ELSE IF ParamsRejected(command, params)
        THEN [raised |-> FALSE,
              value |-> ErrorDict("Invalid params for " \o command \o ": " \o PyRepr(params)),
              posts |-> <<>>]
        ELSE _call_agent_api(server, command, params, remote)

-----------------------------------------------------------------------------
(* The tool descriptors *)

\* the keys of COMMAND_SPECS in insertion order, as `.items()` yields them
COMMAND_ORDER == <<"cpu_info", "memory_info", "get_process_list", "disk_usage">>

\* `required_params` with a plausible slip: spec["required"] is not added to it
RequiredParamsServerOnly(spec) == <<"server">>

\* `required_params = ["server"]` followed by `required_params.extend(spec["required"])`
RequiredParams(spec) == <<"server">> \o spec.required

ParamProperties(cmd, spec) ==
    <<Pair("server", [type |-> "string", description |-> "Server name to monitor"])>>
    \o [i \in DOMAIN spec.params |->
          LET param_name == spec.params[i].k
              default_val == spec.params[i].v
              is_required == param_name \in Range(spec.required)
          IN  Pair(param_name,
                   [type |-> "string",
                    description |-> (IF is_required THEN "Required" ELSE "Optional")
                                    \o " parameter for " \o cmd \o " command (default: "
                                    \o default_val \o ")"])]

_build_command_specific_tools ==
    [i \in DOMAIN COMMAND_ORDER |->
        LET cmd == COMMAND_ORDER[i]
            spec == COMMAND_SPECS[cmd]
        IN  [type |-> "function",
             function |->
                [name |-> cmd,
                 description |-> spec.description \o " on specified server",
                 parameters |-> [type |-> "object",
                                 properties |-> ParamProperties(cmd, spec),
                                 required |-> RequiredParams(spec)]]]]

-----------------------------------------------------------------------------
(* chat(): the bounded tool-calling loop *)

IsSpace(c) == c \in {" ", "\t", "\n", "\r"}

\* str.strip()
RECURSIVE strip(_)
strip(s) ==
    IF s = "" THEN s
    ELSE IF IsSpace(Ch(s, 1)) THEN strip(SubSeq(s, 2, Len(s)))
    ELSE IF IsSpace(Ch(s, Len(s))) THEN strip(SubSeq(s, 1, Len(s) - 1))
    ELSE s

\* `for step in range(max_steps)` with a plausible slip: one iteration too many
InRangeInclusive(st, n) == st <= n

\* `for step in range(max_steps)`: another iteration is due
InRange(st, n) == st < n

LLMErrorMessage(e) == "Error communicating with AI service: " \o e

BudgetMessage(n) ==
    "Unable to complete request within " \o ToString(n) \o " steps. Please try a simpler request."

\* the content with a plausible slip: the text is taken as it is, without strip()
ContentUnstripped(raw) == IF raw = None THEN "" ELSE raw[1]

\* `content = llm_response.content.strip() if llm_response.content else ""`
Content(raw) == IF raw = None \/ raw = Some("") THEN "" ELSE strip(raw[1])

AssistantMsg(content, tcs) ==
    IF tcs # <<>>
    THEN [role |-> "assistant", content |-> content,
          tool_calls |-> [i \in DOMAIN tcs |->
                            [id |-> tcs[i].id, type |-> "function",
                             function |-> [name |-> tcs[i].name, arguments |-> tcs[i].args]]]]
    ELSE [role |-> "assistant", content |-> content]

ToolMsg(tool_call, result) ==
    [role |-> "tool", tool_call_id |-> tool_call.id, content |-> JsonDumps(result)]

\* the `except` branch of the loop with a plausible slip: `continue` in place of `break`
OnInvokeErrorContinue(e, st) ==
    [final_response |-> Some(LLMErrorMessage(e)), pc |-> "loop", step |-> st + 1]

\* the `except` branch of the loop: final_response is set and the loop is left
OnInvokeError(e, st) ==
    [final_response |-> Some(LLMErrorMessage(e)), pc |-> "exit", step |-> st]

\* the inner `for tool_call in tool_calls` with a plausible slip: a failed call ends the batch
BatchDoneOnError(tcs, i, result) ==
    i >= Len(tcs) \/ (result.t = "dict" /\ DictHas(result.items, "error"))

\* the inner `for tool_call in tool_calls` is exhausted after the i-th call
BatchDone(tcs, i, result) == i >= Len(tcs)

\* `chat_history.append(...)` with a plausible slip: the final message goes to the working copy
FinalHistoryOnCopy(history, msgs, final) == history

\* `chat_history.append(...)` with a plausible slip: the working copy is handed back
FinalHistoryFromCopy(history, msgs, final) ==
    Append(msgs, [role |-> "assistant", content |-> final])

\* `chat_history.append({"role": "assistant", "content": final_response})`
FinalHistory(history, msgs, final) ==
    Append(history, [role |-> "assistant", content |-> final])

\* chat(chat_history, max_steps = n) is called: lines 188-191
ChatCall(n) ==
    /\ pc = "idle"
    /\ max_steps' = n
    /\ messages' = chat_history
    /\ history0' = chat_history
    /\ final_response' = None
    /\ step' = 0
    /\ pc' = "loop"
    /\ UNCHANGED <<chat_history, tool_calls, tc_idx, returned, outcome, trace, call, ret>>

\* one call of self.llm.invoke and the handling of its response: lines 193-238
Invoke(resp) ==
    /\ pc = "loop"
    /\ InRange(step, max_steps)
    /\ trace' = Append(trace, [ev |-> "llm", messages |-> messages, resp |-> resp])
    /\ IF resp.fault
       THEN LET h == OnInvokeError(resp.err, step)
            IN  /\ final_response' = h.final_response
                /\ pc' = h.pc
                /\ step' = h.step
                /\ outcome' = "TransportError"
                /\ UNCHANGED <<messages, tool_calls, tc_idx>>
       ELSE LET content == Content(resp.content)
                tcs == resp.tool_calls
            IN  /\ messages' = Append(messages, AssistantMsg(content, tcs))
                /\ IF tcs # <<>>
                   THEN /\ tool_calls' = tcs
                        /\ tc_idx' = 1
                        /\ pc' = "tools"
                        /\ UNCHANGED <<final_response, outcome>>
                   ELSE /\ final_response' = Some(content)
                        /\ outcome' = "FinalAnswer"
                        /\ pc' = "exit"
                        /\ UNCHANGED <<tool_calls, tc_idx>>
                /\ UNCHANGED step
    /\ UNCHANGED <<chat_history, max_steps, returned, history0, call, ret>>

\* one iteration of `for tool_call in tool_calls`: lines 222-234
ExecuteTool(remote) ==
    /\ pc = "tools"
    /\ LET tool_call == tool_calls[tc_idx]
           r == _execute_tool_call(tool_call, remote)
       IN  /\ trace' = trace \o <<[ev |-> "exec", tool_call |-> tool_call,
                                    remote |-> IF r.posts = <<>> THEN None ELSE Some(remote)]>>
                               \o r.posts
           /\ IF r.raised
              THEN /\ pc' = "raised"
                   /\ UNCHANGED <<messages, tc_idx, step>>
              ELSE /\ messages' = Append(messages, ToolMsg(tool_call, r.value))
                   /\ IF BatchDone(tool_calls, tc_idx, r.value)
                      THEN /\ step' = step + 1
                           /\ pc' = "loop"
                           /\ UNCHANGED tc_idx
                      ELSE /\ tc_idx' = tc_idx + 1
                           /\ UNCHANGED <<step, pc>>
    /\ UNCHANGED <<chat_history, final_response, max_steps, tool_calls, returned, outcome,
                   history0, call, ret>>

\* range(max_steps) is exhausted: the loop is left without a final response
LoopExit ==
    /\ pc = "loop"
    /\ ~InRange(step, max_steps)
    /\ pc' = "exit"
    /\ UNCHANGED <<chat_history, messages, final_response, step, max_steps, tool_calls,
                   tc_idx, returned, outcome, history0, trace, call, ret>>

\* lines 240-246
Return ==
    /\ pc = "exit"
    /\ LET final == IF final_response = None THEN BudgetMessage(max_steps)
                    ELSE final_response[1]
       IN  /\ final_response' = Some(final)
           /\ outcome' = IF final_response = None THEN "StepBudgetExceeded" ELSE outcome
           /\ chat_history' = FinalHistory(chat_history, messages, final)
           /\ returned' = Some(final)
    /\ pc' = "done"
    /\ UNCHANGED <<messages, step, max_steps, tool_calls, tc_idx, history0, trace, call, ret>>

-----------------------------------------------------------------------------
(* The environment of chat(): the caller, the generation service, the remote agent *)

SYSTEM_PROMPT_TEMPLATE == "You are a SAP Monitoring Assistant with access to system monitoring tools."

Histories ==
    {<<[role |-> "system", content |-> SYSTEM_PROMPT_TEMPLATE],
       [role |-> "user", content |-> "Check CPU on hana01"]>>,
     <<[role |-> "system", content |-> SYSTEM_PROMPT_TEMPLATE],
       [role |-> "user", content |-> "Check CPU on hana01"],
       [role |-> "assistant", content |-> "CPU is fine"],
       [role |-> "user", content |-> "List the processes of instance 00"]>>}

\* the tool requests the generation service may issue: (function name, arguments)
ToolRequests ==
    {[name |-> "cpu_info", args |-> <<Pair("server", "hana01")>>],
     [name |-> "get_process_list", args |-> <<>>],
     [name |-> "reboot", args |-> <<Pair("server", "hana01")>>],
     [name |-> "disk_usage", args |-> <<Pair("path", "/hana")>>]}

LlmCalls == Len(SelectSeq(trace, LAMBDA e : e.ev = "llm"))

ToolCallsMade == Len(SelectSeq(trace, LAMBDA e : e.ev = "exec"))

\* the batches of tool requests one response may carry: the generation service issues at
\* most MaxToolCalls tool requests during one invocation
Batches == UNION {[1..n -> ToolRequests] : n \in 1..(MaxToolCalls - ToolCallsMade)}

\* the n-th response's tool calls: the requests of a batch with the ids the service gives them
WithIds(batch, n) ==
    [i \in DOMAIN batch |->
        [id |-> "call_" \o ToString(n) \o "_" \o ToString(i),
         name |-> batch[i].name, args |-> batch[i].args]]

LLMFaults == {"Connection error.", "Request timed out."}

FinalContents == {None, Some(""), Some("CPU is fine"), Some(" All instances are running.\n")}

\* what the n-th call of self.llm.invoke may produce
LLMResponses(n) ==
    {[fault |-> TRUE, err |-> e] : e \in LLMFaults}
    \cup {[fault |-> FALSE, content |-> c, tool_calls |-> <<>>] : c \in FinalContents}
    \cup {[fault |-> FALSE, content |-> None, tool_calls |-> WithIds(b, n)] : b \in Batches}

ConnectionFaults ==
    {[kind |-> "ConnectionError", text |-> "Connection refused"],
     [kind |-> "Timeout", text |-> "Read timed out. (read timeout=5)"]}

HttpResponse(status, body) == [kind |-> "response", status |-> status, body |-> body]

\* what the remote agent may do to a request.post issued by chat()
ChatRemotes ==
    {[kind |-> "Timeout", text |-> "Read timed out. (read timeout=5)"],
     HttpResponse(200, "{\"output\": \"ok\"}")}

NoCall == [fn |-> "none"]

NoRet == [done |-> FALSE]

Init ==
    /\ chat_history \in Histories
    /\ messages = <<>>
    /\ final_response = None
    /\ step = 0
    /\ max_steps = 0
    /\ tool_calls = <<>>
    /\ tc_idx = 0
    /\ pc = "idle"
    /\ returned = None
    /\ outcome = "None"
    /\ history0 = <<>>
    /\ trace = <<>>
    /\ call = NoCall
    /\ ret = NoRet

Next ==
    \/ \E n \in 0..MaxSteps : ChatCall(n)
    \/ \E resp \in LLMResponses(LlmCalls + 1) : Invoke(resp)
    \/ \E remote \in ChatRemotes : ExecuteTool(remote)
    \/ LoopExit
    \/ Return

Spec == Init /\ [][Next]_vars

\* chat() is straight-line sequential code run by one thread: the caller calls it, and
\* every call it makes to the generation service or to the remote agent comes back
\* (with a value or with a fault), so a step that can be taken is eventually taken
FairSpec == Spec /\ WF_vars(Next)

TypeOK ==
    /\ pc \in {"idle", "loop", "tools", "exit", "done", "raised"}
    /\ step \in 0..(MaxSteps + 1)
    /\ outcome \in {"None", "TransportError", "FinalAnswer", "StepBudgetExceeded"}

-----------------------------------------------------------------------------
(* The registry validation, applied to drawn inputs *)

\* chat() is not running
ChatOff ==
    /\ chat_history = <<>>
    /\ messages = <<>>
    /\ final_response = None
    /\ step = 0
    /\ max_steps = 0
    /\ tool_calls = <<>>
    /\ tc_idx = 0
    /\ pc = "off"
    /\ returned = None
    /\ outcome = "None"
    /\ history0 = <<>>
    /\ trace = <<>>

CommandNames == DOMAIN COMMAND_SPECS \cup {"reboot", "cpu"}

ParamKeys == {"instance", "filter", "limit", "path", "threshold", "verbose"}

\* the dicts of at most MaxParams entries over ParamKeys, in every insertion order
ParamDicts ==
    UNION {{[i \in 1..n |-> Pair(ks[i], "00")] :
                ks \in {f \in [1..n -> ParamKeys] : \A i, j \in 1..n : i # j => f[i] # f[j]}} :
           n \in 0..MaxParams}

InitValidate ==
    /\ ChatOff
    /\ call \in {[fn |-> "_validate_command", command |-> c, params |-> p] :
                    c \in CommandNames, p \in ParamDicts}
    /\ ret = NoRet

Validate ==
    /\ call.fn = "_validate_command"
    /\ ~ret.done
    /\ ret' = [done |-> TRUE, raised |-> FALSE,
               value |-> _validate_command(call.command, call.params)]
    /\ UNCHANGED <<chatVars, call>>

NextValidate == Validate

SpecValidate == InitValidate /\ [][NextValidate]_vars

-----------------------------------------------------------------------------
(* The response interpreter, applied to drawn inputs *)

NotJson ==
    {"", " ", "CPU is fine", "I'll check both CPU and disk usage for server01.",
     "{", "{\"action\": \"monitoring\"", "{\"action\": \"monitoring\",}", "{} and more",
     "{'action': 'monitoring', 'server': 'hana01', 'command': 'cpu_info'}",
     "nul", "[1, 2", "\"monitoring", "monitoring"}

JsonNotObject ==
    {"[]", "[1, 2]", " [ ] ", "[{\"action\": \"monitoring\", \"server\": \"hana01\", \"command\": \"cpu_info\"}]",
     "0", "42", "-5", "null", "true", "false", "\"monitoring\"", "\"\""}

ActionValues == {None, Some(JStr("monitoring")), Some(JStr("restart")), Some(JInt("1")), Some(JNull)}

ServerValues == {None, Some(JStr("hana01")), Some(JNull)}

CommandValues == {None, Some(JStr("cpu_info"))}

ParamsValues == {None, Some(JDict(<<>>)), Some(JDict(<<Pair("instance", JStr("00"))>>))}

Member(k, opt) == IF opt = None THEN <<>> ELSE <<Pair(k, opt[1])>>

\* JSON objects with every combination of the keys of the tool-request wire schema
JsonObjects ==
    {JsonDumps(JDict(Member("action", a) \o Member("server", sv) \o Member("command", c)
                     \o Member("params", p))) :
        a \in ActionValues, sv \in ServerValues, c \in CommandValues, p \in ParamsValues}

InitParse ==
    /\ ChatOff
    /\ call \in {[fn |-> "_parse_json_response", response |-> r] :
                    r \in NotJson \cup JsonNotObject \cup JsonObjects}
    /\ ret = NoRet

Parse ==
    /\ call.fn = "_parse_json_response"
    /\ ~ret.done
    /\ ret' = [done |-> TRUE] @@ _parse_json_response(call.response)
    /\ UNCHANGED <<chatVars, call>>

NextParse == Parse

SpecParse == InitParse /\ [][NextParse]_vars

-----------------------------------------------------------------------------
(* The tool executor, applied to drawn inputs *)

WellFormedBodies ==
    {"{\"output\": \"ok\"}", "{\"detail\": \"Internal Server Error\"}",
     "{\"error\": \"command failed\"}", "[1, 2]", "{}"}

MalformedBodies == {"", "<html>502 Bad Gateway</html>", "{\"output\": "}

StatusCodes == {200, 201, 404, 500}

Remotes ==
    ConnectionFaults
    \cup {HttpResponse(st, b) : st \in StatusCodes, b \in WellFormedBodies \cup MalformedBodies}

InitExec ==
    /\ ChatOff
    /\ call \in {[fn |-> "_call_agent_api", server |-> sv, command |-> c, params |-> p,
                  remote |-> r] :
                    sv \in {None, Some("hana01")}, c \in {"cpu_info", "get_process_list"},
                    p \in {<<>>, <<Pair("instance", "00")>>}, r \in Remotes}
    /\ ret = NoRet

Exec ==
    /\ call.fn = "_call_agent_api"
    /\ ~ret.done
    /\ ret' = [done |-> TRUE]
              @@ _call_agent_api(call.server, call.command, call.params, call.remote)
    /\ UNCHANGED <<chatVars, call>>

NextExec == Exec

SpecExec == InitExec /\ [][NextExec]_vars

-----------------------------------------------------------------------------
(* A request built from a tool descriptor, applied to _execute_tool_call *)

ServerNames == {"hana01", "hana02"}

ParamTexts == {"00", "/hana"}

InitTools ==
    /\ ChatOff
    /\ call \in {[fn |-> "_execute_tool_call", command |-> c, server |-> sv, text |-> v,
                  remote |-> r] :
                    c \in DOMAIN COMMAND_SPECS, sv \in ServerNames, v \in ParamTexts,
                    r \in Remotes}
    /\ ret = NoRet

\* the request that supplies exactly the parameters the descriptor marks as required
RequestFor(tool, sv, v) ==
    [id |-> "call_1_1",
     name |-> tool.function.name,
     args |-> [i \in DOMAIN tool.function.parameters.required |->
                 LET k == tool.function.parameters.required[i]
                 IN  Pair(k, IF k = "server" THEN sv ELSE v)]]

BuildAndExecute ==
    /\ call.fn = "_execute_tool_call"
    /\ ~ret.done
    /\ LET tools == _build_command_specific_tools
           tool == tools[CHOOSE i \in DOMAIN tools : tools[i].function.name = call.command]
           request == RequestFor(tool, call.server, call.text)
       IN  ret' = [done |-> TRUE, tools |-> tools, request |-> request]
                  @@ _execute_tool_call(request, call.remote)
    /\ UNCHANGED <<chatVars, call>>

NextTools == BuildAndExecute

SpecTools == InitTools /\ [][NextTools]_vars

-----------------------------------------------------------------------------
(* The command catalog of the prompt template, applied to drawn registries *)

\* str.replace(old, new) for a one-character old
RECURSIVE replace(_, _, _)
replace(s, old, new) ==
    IF s = "" THEN ""
    ELSE IF Len(s) = 1 THEN (IF s = old THEN new ELSE s)
    ELSE replace(SubSeq(s, 1, Len(s) \div 2), old, new)
         \o replace(SubSeq(s, Len(s) \div 2 + 1, Len(s)), old, new)

\* the escaping with a plausible slip: the closing brace is left as it is
EscapeOpenOnly(help_text) == replace(help_text, "{", "{{")

\* `help_text.replace("{", "{{").replace("}", "}}")`
EscapeBraces(help_text) == replace(replace(help_text, "{", "{{"), "}", "}}")

\* build_command_help(), with its local COMMAND_SPECS as the parameter: a sequence of
\* entries in insertion order
build_command_help(specs) ==
    LET help_lines == [i \in DOMAIN specs |->
                          "- " \o specs[i].name \o ": " \o specs[i].description
                          \o ", params: " \o PyRepr(specs[i].params)]
        help_text == JoinStr(help_lines, "\n")
    IN  EscapeBraces(help_text)

\* the COMMAND_SPECS of build_command_help
TEMPLATE_COMMAND_SPECS ==
    <<[name |-> "cpu", description |-> "Get current CPU usage", params |-> <<>>],
      [name |-> "memory", description |-> "Get current memory usage", params |-> <<>>],
      [name |-> "get_process_list",
       description |-> "Get list of running processes for a given instance",
       params |-> <<Pair("instance", "00")>>],
      [name |-> "disk_usage", description |-> "Get disk usage stats for a mount point",
       params |-> <<Pair("mount", "/hana")>>]>>

\* the entries registries are drawn from: those of the source and one with braces in its
\* description and two params
CatalogEntries ==
    Range(TEMPLATE_COMMAND_SPECS)
    \cup {[name |-> "df", description |-> "Run df -h {path} on {server}",
           params |-> <<Pair("path", "/hana"), Pair("threshold", "80")>>]}

\* the non-empty registries over CatalogEntries, in every insertion order
Catalogs ==
    UNION {{f \in [1..n -> CatalogEntries] : \A i, j \in 1..n : i # j => f[i] # f[j]} :
           n \in 1..Cardinality(CatalogEntries)}

InitHelp ==
    /\ ChatOff
    /\ call \in {[fn |-> "build_command_help", specs |-> c] : c \in Catalogs}
    /\ ret = NoRet

Help ==
    /\ call.fn = "build_command_help"
    /\ ~ret.done
    /\ ret' = [done |-> TRUE, raised |-> FALSE, value |-> build_command_help(call.specs)]
    /\ UNCHANGED <<chatVars, call>>

NextHelp == Help

SpecHelp == InitHelp /\ [][NextHelp]_vars

-----------------------------------------------------------------------------
(* main(): the interactive loop around chat() *)

\* `max_steps: int = 3`: the budget main() gets by not passing max_steps
DEFAULT_MAX_STEPS == 3

UpperCase == "ABCDEFGHIJKLMNOPQRSTUVWXYZ"

LowerCase == "abcdefghijklmnopqrstuvwxyz"

\* str.lower()
RECURSIVE lower(_)
lower(s) ==
    IF s = "" THEN ""
    ELSE LET c == Ch(s, 1)
             up == {i \in 1..Len(UpperCase) : Ch(UpperCase, i) = c}
         IN  (IF up = {} THEN c ELSE Ch(LowerCase, CHOOSE i \in up : TRUE))
             \o lower(SubSeq(s, 2, Len(s)))

\* the trimming with a plausible slip: the system prompt is not counted, 21 entries are kept
TrimHistoryKeeps21(h) ==
    IF Len(h) > 21 THEN <<h[1]>> \o SubSeq(h, Len(h) - 20, Len(h)) ELSE h

\* `if len(chat_history) > 21: chat_history = [chat_history[0]] + chat_history[-20:]`
TrimHistory(h) ==
    IF Len(h) > 21 THEN <<h[1]>> \o SubSeq(h, Len(h) - 19, Len(h)) ELSE h

\* main() is at its prompt: before the first input, or after chat() has returned
AtPrompt ==
    /\ ~ret.done
    /\ \/ pc = "idle" /\ call.turn = 0
       \/ pc = "done"

\* the user types 'quit', 'exit' or 'q' in any case: the loop is left
MainQuit(raw) ==
    /\ AtPrompt
    /\ lower(strip(raw)) \in {"quit", "exit", "q"}
    /\ ret' = [done |-> TRUE]
    /\ call' = [call EXCEPT !.user_input = raw]
    /\ UNCHANGED chatVars

\* the user types nothing but white space: `continue`
MainEmpty(raw) ==
    /\ AtPrompt
    /\ lower(strip(raw)) \notin {"quit", "exit", "q"}
    /\ strip(raw) = ""
    /\ call' = [call EXCEPT !.user_input = raw]
    /\ UNCHANGED <<chatVars, ret>>

\* the user types a request: it is appended to the history and the history is trimmed;
\* agent.chat(chat_history) is the next thing main() does
MainTurn(raw) ==
    /\ AtPrompt
    /\ call.turn < MaxTurns
    /\ LET user_input == strip(raw)
       IN  /\ lower(user_input) \notin {"quit", "exit", "q"}
           /\ user_input # ""
           /\ chat_history' =
                 TrimHistory(Append(chat_history, [role |-> "user", content |-> user_input]))
    /\ call' = [call EXCEPT !.user_input = raw, !.turn = @ + 1]
    /\ pc' = "idle"
    /\ trace' = <<>>
    /\ outcome' = "None"
    /\ returned' = None
    /\ UNCHANGED <<messages, final_response, step, max_steps, tool_calls, tc_idx, history0, ret>>

\* `response = agent.chat(chat_history)`
MainChat ==
    /\ call.turn > 0
    /\ ChatCall(DEFAULT_MAX_STEPS)

\* what the user types at the prompt of turn k
UserText(k) == "Check CPU on hana" \o ToString(k)

UserInputs(k) == {"quit", " Exit", "Q", "", " \t", UserText(k), "  " \o UserText(k) \o " "}

\* the course a turn takes, by the turn's number and the session's script:
\* an answer at once, one tool call and then an answer, a fault of the generation
\* service, or tool requests until the budget is spent
TurnKind == (call.turn + call.script) % 4

MainResponses ==
    CASE TurnKind = 0 -> {[fault |-> FALSE, content |-> Some("CPU is fine"), tool_calls |-> <<>>]}
      [] TurnKind = 1 ->
            IF step = 0
            THEN {[fault |-> FALSE, content |-> None,
                   tool_calls |-> WithIds(<<[name |-> "cpu_info",
                                             args |-> <<Pair("server", "hana01")>>]>>,
                                          LlmCalls + 1)]}
            ELSE {[fault |-> FALSE, content |-> Some(" All instances are running.\n"),
                   tool_calls |-> <<>>]}
      [] TurnKind = 2 -> {[fault |-> TRUE, err |-> "Connection error."]}
      [] OTHER ->
            {[fault |-> FALSE, content |-> None,
              tool_calls |-> WithIds(<<[name |-> "get_process_list", args |-> <<>>]>>,
                                     LlmCalls + 1)]}

InitMain ==
    /\ chat_history = <<[role |-> "system", content |-> SYSTEM_PROMPT_TEMPLATE]>>
    /\ messages = <<>>
    /\ final_response = None
    /\ step = 0
    /\ max_steps = 0
    /\ tool_calls = <<>>
    /\ tc_idx = 0
    /\ pc = "idle"
    /\ returned = None
    /\ outcome = "None"
    /\ history0 = <<>>
    /\ trace = <<>>
    /\ \E o \in 0..3 : call = [fn |-> "main", turn |-> 0, user_input |-> "", script |-> o]
    /\ ret = [done |-> FALSE]

NextMain ==
    \/ \E raw \in UserInputs(call.turn + 1) : MainQuit(raw)
    \/ \E raw \in UserInputs(call.turn + 1) : MainEmpty(raw)
    \/ \E raw \in UserInputs(call.turn + 1) : MainTurn(raw)
    \/ MainChat
    \/ \E resp \in MainResponses : Invoke(resp)
    \/ \E remote \in ChatRemotes : ExecuteTool(remote)
    \/ LoopExit
    \/ Return

SpecMain == InitMain /\ [][NextMain]_vars

-----------------------------------------------------------------------------
(* Two invocations of chat() on one agent and one history, interleaved.     *)
(* chat_history is the caller's list, shared; every other variable of       *)
(* chat() is a local of one invocation and is kept here per invocation.     *)
(* list(chat_history) and chat_history.append(...) are single list          *)
(* operations: each is one step.                                            *)

Invocations == {"A", "B"}

\* the tool calls of the n-th response to invocation t, with the ids the service gives them
ConcIds(t, batch, n) ==
    [i \in DOMAIN batch |->
        [id |-> "call_" \o t \o ToString(n) \o "_" \o ToString(i),
         name |-> batch[i].name, args |-> batch[i].args]]

ConcLlmCalls(t) == Len(SelectSeq(trace[t], LAMBDA e : e.ev = "llm"))

\* what the generation service may answer to invocation t
ConcResponses(t) ==
    {[fault |-> TRUE, err |-> "Connection error."],
     [fault |-> FALSE, tool_calls |-> <<>>,
      content |-> Some(IF t = "A" THEN "CPU is fine" ELSE " All instances are running.\n")],
     [fault |-> FALSE, content |-> None,
      tool_calls |-> ConcIds(t, <<[name |-> "cpu_info", args |-> <<Pair("server", "hana01")>>]>>,
                             ConcLlmCalls(t) + 1)]}

\* invocation t is called: lines 188-191
ConcCall(t, n) ==
    /\ pc[t] = "idle"
    /\ max_steps' = [max_steps EXCEPT ![t] = n]
    /\ messages' = [messages EXCEPT ![t] = chat_history]
    /\ history0' = [history0 EXCEPT ![t] = chat_history]
    /\ final_response' = [final_response EXCEPT ![t] = None]
    /\ step' = [step EXCEPT ![t] = 0]
    /\ pc' = [pc EXCEPT ![t] = "loop"]
    /\ UNCHANGED <<chat_history, tool_calls, tc_idx, returned, outcome, trace, call, ret>>

\* invocation t calls self.llm.invoke and handles the response: lines 193-238
ConcInvoke(t, resp) ==
    /\ pc[t] = "loop"
    /\ InRange(step[t], max_steps[t])
    /\ trace' = [trace EXCEPT ![t] = Append(@, [ev |-> "llm", messages |-> messages[t],
                                                resp |-> resp])]
    /\ IF resp.fault
       THEN LET h == OnInvokeError(resp.err, step[t])
            IN  /\ final_response' = [final_response EXCEPT ![t] = h.final_response]
                /\ pc' = [pc EXCEPT ![t] = h.pc]
                /\ step' = [step EXCEPT ![t] = h.step]
                /\ outcome' = [outcome EXCEPT ![t] = "TransportError"]
                /\ UNCHANGED <<messages, tool_calls, tc_idx>>
       ELSE LET content == Content(resp.content)
                tcs == resp.tool_calls
            IN  /\ messages' = [messages EXCEPT ![t] = Append(@, AssistantMsg(content, tcs))]
                /\ IF tcs # <<>>
                   THEN /\ tool_calls' = [tool_calls EXCEPT ![t] = tcs]
                        /\ tc_idx' = [tc_idx EXCEPT ![t] = 1]
                        /\ pc' = [pc EXCEPT ![t] = "tools"]
                        /\ UNCHANGED <<final_response, outcome>>
                   ELSE /\ final_response' = [final_response EXCEPT ![t] = Some(content)]
                        /\ outcome' = [outcome EXCEPT ![t] = "FinalAnswer"]
                        /\ pc' = [pc EXCEPT ![t] = "exit"]
                        /\ UNCHANGED <<tool_calls, tc_idx>>
                /\ UNCHANGED step
    /\ UNCHANGED <<chat_history, max_steps, returned, history0, call, ret>>

\* invocation t runs one iteration of `for tool_call in tool_calls`: lines 222-234
ConcExecuteTool(t, remote) ==
    /\ pc[t] = "tools"
    /\ LET tool_call == tool_calls[t][tc_idx[t]]
           r == _execute_tool_call(tool_call, remote)
       IN  /\ trace' = [trace EXCEPT ![t] =
                           @ \o <<[ev |-> "exec", tool_call |-> tool_call,
                                   remote |-> IF r.posts = <<>> THEN None ELSE Some(remote)]>>
                             \o r.posts]
           /\ IF r.raised
              THEN /\ pc' = [pc EXCEPT ![t] = "raised"]
                   /\ UNCHANGED <<messages, tc_idx, step>>
              ELSE /\ messages' = [messages EXCEPT ![t] = Append(@, ToolMsg(tool_call, r.value))]
                   /\ IF BatchDone(tool_calls[t], tc_idx[t], r.value)
                      THEN /\ step' = [step EXCEPT ![t] = @ + 1]
                           /\ pc' = [pc EXCEPT ![t] = "loop"]
                           /\ UNCHANGED tc_idx
                      ELSE /\ tc_idx' = [tc_idx EXCEPT ![t] = @ + 1]
                           /\ UNCHANGED <<step, pc>>
    /\ UNCHANGED <<chat_history, final_response, max_steps, tool_calls, returned, outcome,
                   history0, call, ret>>

\* range(max_steps) is exhausted in invocation t
ConcLoopExit(t) ==
    /\ pc[t] = "loop"
    /\ ~InRange(step[t], max_steps[t])
    /\ pc' = [pc EXCEPT ![t] = "exit"]
    /\ UNCHANGED <<chat_history, messages, final_response, step, max_steps, tool_calls,
                   tc_idx, returned, outcome, history0, trace, call, ret>>

\* invocation t appends its final message to the shared history and returns: lines 240-246
ConcReturn(t) ==
    /\ pc[t] = "exit"
    /\ LET final == IF final_response[t] = None THEN BudgetMessage(max_steps[t])
                    ELSE final_response[t][1]
       IN  /\ final_response' = [final_response EXCEPT ![t] = Some(final)]
           /\ outcome' = [outcome EXCEPT ![t] =
                             IF final_response[t] = None THEN "StepBudgetExceeded" ELSE @]
           /\ chat_history' = FinalHistory(chat_history, messages[t], final)
           /\ returned' = [returned EXCEPT ![t] = Some(final)]
    /\ pc' = [pc EXCEPT ![t] = "done"]
    /\ UNCHANGED <<messages, step, max_steps, tool_calls, tc_idx, history0, trace, call, ret>>

InitConc ==
    /\ chat_history \in Histories
    /\ messages = [t \in Invocations |-> <<>>]
    /\ final_response = [t \in Invocations |-> None]
    /\ step = [t \in Invocations |-> 0]
    /\ max_steps = [t \in Invocations |-> 0]
    /\ tool_calls = [t \in Invocations |-> <<>>]
    /\ tc_idx = [t \in Invocations |-> 0]
    /\ pc = [t \in Invocations |-> "idle"]
    /\ returned = [t \in Invocations |-> None]
    /\ outcome = [t \in Invocations |-> "None"]
    /\ history0 = [t \in Invocations |-> <<>>]
    /\ trace = [t \in Invocations |-> <<>>]
    /\ call = [fn |-> "chat", chat_history |-> chat_history]
    /\ ret = NoRet

NextConc ==
    \E t \in Invocations :
        \/ \E n \in 0..MaxSteps : ConcCall(t, n)
        \/ \E resp \in ConcResponses(t) : ConcInvoke(t, resp)
        \/ \E remote \in ChatRemotes : ConcExecuteTool(t, remote)
        \/ ConcLoopExit(t)
        \/ ConcReturn(t)

SpecConc == InitConc /\ [][NextConc]_vars

-----------------------------------------------------------------------------
(* Properties *)

\* the parameters of a tool request: its arguments other than 'server'
RequestParams(tc) == SelectSeq(tc.args, LAMBDA kv : kv.k # "server")

\* the request names a registered command and supplies every required parameter
IsValidRequest(tc) ==
    /\ tc.name \in DOMAIN COMMAND_SPECS
    /\ \A i \in DOMAIN COMMAND_SPECS[tc.name].required :
          COMMAND_SPECS[tc.name].required[i] \in DictKeys(RequestParams(tc))

LlmEvents == {i \in DOMAIN trace : trace[i].ev = "llm"}

ExecEvents == {i \in DOMAIN trace : trace[i].ev = "exec"}

IsToolTurn(i) == ~trace[i].resp.fault /\ trace[i].resp.tool_calls # <<>>

IsFailure(v) == v.t = "dict" /\ DictHas(v.items, "error")

\* C1: _validate_command(command, params) is true exactly when command is registered and
\* every name of its required list is a key of params; extra keys and missing optional
\* keys do not change the result; an unregistered command yields false.
C1_ValidateIffRequiredPresent ==
    ret.done =>
        /\ ret.value = (/\ call.command \in DOMAIN COMMAND_SPECS
                        /\ \A i \in DOMAIN COMMAND_SPECS[call.command].required :
                              DictHas(call.params, COMMAND_SPECS[call.command].required[i]))
        /\ call.command \notin DOMAIN COMMAND_SPECS => ret.value = FALSE
        /\ call.command \in DOMAIN COMMAND_SPECS =>
              ret.value = _validate_command(call.command,
                              SelectSeq(call.params,
                                  LAMBDA kv : kv.k \in Range(COMMAND_SPECS[call.command].required)))

\* C1 witness: get_process_list is accepted with its required 'instance', an unlisted key
\* and its optional keys missing
C1_Witness ==
    /\ ret.done
    /\ ret.value = TRUE
    /\ call.command = "get_process_list"
    /\ DictKeys(call.params) = {"instance", "verbose"}

\* every response of the generation service so far was a batch of valid tool requests
AlwaysValidTools ==
    \A i \in LlmEvents :
        /\ IsToolTurn(i)
        /\ \A k \in DOMAIN trace[i].resp.tool_calls : IsValidRequest(trace[i].resp.tool_calls[k])

\* C2: with max_steps = N and a generation service that answers every call with valid
\* tool requests, chat() calls the service exactly N times, never N + 1, and returns the
\* 'Unable to complete request within N steps' message (StepBudgetExceeded).
C2_StepBudgetRespected ==
    AlwaysValidTools =>
        /\ LlmCalls <= max_steps
        /\ pc = "done" =>
              /\ LlmCalls = max_steps
              /\ outcome = "StepBudgetExceeded"
              /\ StartsWith(returned[1], "Unable to complete request within "
                                          \o ToString(max_steps) \o " steps.")

\* C2 witness: a run of two or more steps, all of them valid tool requests, has returned
C2_Witness ==
    /\ pc = "done"
    /\ max_steps >= 2
    /\ LlmCalls = max_steps
    /\ AlwaysValidTools

\* the tool message chat() appends for the request tc, if any
ToolMessagesFor(tc) ==
    {i \in DOMAIN messages : messages[i].role = "tool" /\ messages[i].tool_call_id = tc.id}

C4_LLMFaultIsTerminal ==
    \A i \in LlmEvents :
        trace[i].resp.fault =>
            /\ i = Len(trace)
            /\ pc \in {"exit", "done"}
            /\ outcome = "TransportError"
            /\ pc = "done" =>
                  returned = Some("Error communicating with AI service: " \o trace[i].resp.err)

\* C4 witness: the service failed while step budget remained, and chat() has returned
C4_Witness ==
    /\ pc = "done"
    /\ trace # <<>>
    /\ trace[Len(trace)].ev = "llm"
    /\ trace[Len(trace)].resp.fault
    /\ LlmCalls < max_steps

\* C5: every chat() invocation produces exactly one outcome: it does not raise, and when
\* it returns exactly one assistant message, whose content is the returned string, has
\* been appended to the caller's history, in every terminal state.
C5_ExactlyOneOutcome ==
    /\ pc # "raised"
    /\ pc \in {"loop", "tools", "exit"} => (Len(chat_history) = Len(history0) /\ returned = None)
    /\ pc = "done" =>
          /\ outcome \in {"FinalAnswer", "TransportError", "StepBudgetExceeded"}
          /\ returned # None
          /\ Len(chat_history) = Len(history0) + 1
          /\ chat_history[Len(chat_history)] = [role |-> "assistant", content |-> returned[1]]

\* C5 witness: an invocation whose tool calls reached the remote agent has returned on
\* the step budget
C5_Witness ==
    /\ pc = "done"
    /\ outcome = "StepBudgetExceeded"
    /\ \E i \in DOMAIN trace : trace[i].ev = "post"

\* C6: chat() only appends to the caller's history: after it returns the history is its
\* contents at call time followed by the one final assistant entry, and the assistant
\* tool-call messages and tool results of the loop are in the working copy only.
C6_HistoryOnlyAppended ==
    /\ pc \in {"loop", "tools", "exit"} => chat_history = history0
    /\ pc = "done" =>
          /\ SubSeq(chat_history, 1, Len(history0)) = history0
          /\ Len(chat_history) = Len(history0) + 1
          /\ DOMAIN chat_history[Len(chat_history)] = {"role", "content"}
          /\ chat_history[Len(chat_history)].role = "assistant"
    /\ pc \in {"loop", "tools", "exit", "done"} =>
          /\ Len(messages) >= Len(history0)
          /\ SubSeq(messages, 1, Len(history0)) = history0
          /\ Len(messages) = Len(history0) + Cardinality(ExecEvents)
                              + Cardinality({i \in LlmEvents : ~trace[i].resp.fault})

\* C6 witness: the loop produced tool-call and tool-result messages, and chat() has returned
C6_Witness ==
    /\ pc = "done"
    /\ \E i \in DOMAIN messages : messages[i].role = "tool"
    /\ \E i \in DOMAIN messages : "tool_calls" \in DOMAIN messages[i]
    /\ Len(history0) = 4


\* the working context the i-th event's tool turn has led to: the context handed to the
\* next generation-service call, or the current one when no such call was made yet
ContextAfter(i) ==
    IF \E j \in LlmEvents : j > i
    THEN trace[CHOOSE j \in LlmEvents : j > i /\ \A k \in LlmEvents : k > i => j <= k].messages
    ELSE messages

\* the tool executions that follow the i-th event before the next generation-service call
ExecsAfter(i) ==
    LET last == IF \E j \in LlmEvents : j > i
                THEN (CHOOSE j \in LlmEvents : j > i /\ \A k \in LlmEvents : k > i => j <= k) - 1
                ELSE Len(trace)
    IN  SelectSeq(SubSeq(trace, i + 1, last), LAMBDA e : e.ev = "exec")

\* the batch of the i-th event has been processed
BatchProcessed(i) == (\E j \in LlmEvents : j > i) \/ pc \in {"loop", "exit", "done"}

\* the error text a failed validation of the request tc is reported with
IsRejection(content, tc) ==
    /\ StartsWith(content, "{\"error\": \"")
    /\ Contains(content, tc.name)

\* C7: the tool requests of one generation-service output are executed one at a time in
\* their order; a failed request does not cancel the later ones; and one tool-result
\* message per request, in request order and with the request's id, is in the working
\* context before the next generation-service call.
C7_BatchInOrderAndComplete ==
    \A i \in LlmEvents :
        IsToolTurn(i) =>
            LET tcs == trace[i].resp.tool_calls
                before == trace[i].messages
                execs == ExecsAfter(i)
                ctx == ContextAfter(i)
            IN  /\ Len(execs) <= Len(tcs)
                /\ \A k \in DOMAIN execs : execs[k].tool_call = tcs[k]
                /\ BatchProcessed(i) =>
                      /\ Len(execs) = Len(tcs)
                      /\ Len(ctx) >= Len(before) + 1 + Len(tcs)
                      /\ SubSeq(ctx, 1, Len(before)) = before
                      /\ ctx[Len(before) + 1].role = "assistant"
                      /\ \A k \in DOMAIN tcs :
                            /\ ctx[Len(before) + 1 + k].role = "tool"
                            /\ ctx[Len(before) + 1 + k].tool_call_id = tcs[k].id
                            /\ ~IsValidRequest(tcs[k]) =>
                                  IsRejection(ctx[Len(before) + 1 + k].content, tcs[k])
                      /\ (\E j \in LlmEvents : j > i) => Len(ctx) = Len(before) + 1 + Len(tcs)

\* C7 witness: a batch whose first request was rejected and whose second request reached
\* the remote agent, followed by the next generation-service call
C7_Witness ==
    \E i \in LlmEvents :
        /\ IsToolTurn(i)
        /\ Len(trace[i].resp.tool_calls) >= 2
        /\ ~IsValidRequest(trace[i].resp.tool_calls[1])
        /\ IsValidRequest(trace[i].resp.tool_calls[2])
        /\ \E j \in LlmEvents : j > i
        /\ \E p \in DOMAIN trace : p > i /\ trace[p].ev = "post"

\* the response is a tool request of the wire schema: a JSON object whose 'action' is
\* "monitoring" and which has the keys 'server' and 'command'
IsWireToolRequest(response) ==
    /\ response \in JsonObjects
    /\ Contains(response, "\"action\": \"monitoring\"")
    /\ Contains(response, "\"server\": ")
    /\ Contains(response, "\"command\": ")

\* C8: _parse_json_response is total: for any string - empty, not JSON, JSON that is not
\* an object, or an object without the marker, 'server' or 'command' - it returns the
\* not-a-tool-request result (None) and never raises.
C8_InterpreterTotal ==
    ret.done =>
        /\ ~ret.raised
        /\ ~IsWireToolRequest(call.response) => ret.value = None

\* the parts of C8 the code keeps: input that is not JSON, or a JSON object that is not a
\* tool request, yields None; a tool request is returned as parsed
C8_TotalOnObjectsAndNonJson ==
    ret.done =>
        /\ call.response \in NotJson \cup JsonObjects => ~ret.raised
        /\ call.response \in NotJson => ret.value = None
        /\ (call.response \in JsonObjects /\ ~IsWireToolRequest(call.response)) => ret.value = None
        /\ IsWireToolRequest(call.response) => (ret.value # None /\ ret.value[1].t = "dict")

\* the remote agent's behaviour is a transport-level fault: no connection, a timeout, or
\* a response whose body is not JSON
IsTransportFault(remote) ==
    \/ remote \in ConnectionFaults
    \/ (remote.kind = "response" /\ remote.body \in MalformedBodies)

\* C9: _call_agent_api never propagates a fault: a connection failure, a timeout or a
\* malformed response body each yields a result carrying the reason under 'error'.
C9_ExecutorNeverRaises ==
    ret.done =>
        /\ ~ret.raised
        /\ IsTransportFault(call.remote) =>
              /\ IsFailure(ret.value)
              /\ Len(ret.value.items) = 1
              /\ ret.value.items[1].v.t = "str"
              /\ ret.value.items[1].v.s # ""

\* C9 witness: the remote agent answered with a body that is not JSON
C9_Witness ==
    /\ ret.done
    /\ call.remote.kind = "response"
    /\ call.remote.body = "<html>502 Bad Gateway</html>"
    /\ call.remote.status = 500

\* C10: every non-2xx response of the remote agent is mapped to a Failure result, also
\* one whose body is well-formed JSON; only a 2xx response with a JSON body is passed
\* through as the Success payload.
C10_Non2xxIsFailure ==
    (ret.done /\ call.remote.kind = "response" /\ call.remote.status \notin 200..299) =>
        /\ ~ret.raised
        /\ IsFailure(ret.value)

PostEvents == {i \in DOMAIN trace : trace[i].ev = "post"}

\* C11: for a tool request that passes validation the executor is called with exactly the
\* request's server, its command name and its params unchanged: the params are the
\* arguments other than 'server', no value is normalised, no key is added or dropped and
\* no optional default is filled in.
C11_ExecutorGetsRequestUnchanged ==
    /\ \A p \in PostEvents :
          /\ p > 1
          /\ trace[p - 1].ev = "exec"
          /\ LET tc == trace[p - 1].tool_call
             IN  /\ trace[p].name = tc.name
                 /\ trace[p].params = RequestParams(tc)
                 /\ \A i \in DOMAIN tc.args :
                       tc.args[i].k = "server" =>
                           trace[p].url = "http://" \o tc.args[i].v \o ".mybank.net:8090/execute"
    /\ \A i \in ExecEvents :
          (IsValidRequest(trace[i].tool_call) /\ pc # "raised") =>
              (i < Len(trace) /\ trace[i + 1].ev = "post")

\* C11 witness: cpu_info, which has no required params, was requested for hana01 without
\* params and reached the executor with the empty mapping
C11_Witness ==
    \E p \in PostEvents :
        /\ trace[p].name = "cpu_info"
        /\ trace[p].params = <<>>
        /\ trace[p].url = "http://hana01.mybank.net:8090/execute"
        /\ trace[p - 1].tool_call.args = <<Pair("server", "hana01")>>

\* C12: for every command of the registry, a request that names the command and supplies
\* exactly the parameters its tool descriptor marks as required (server and the command's
\* required list) passes validation in _execute_tool_call and reaches the executor; and
\* every descriptor's required list holds only names declared in its properties.
C12_DescriptorRoundTrip ==
    ret.done =>
        /\ ~ret.raised
        /\ Len(ret.posts) = 1
        /\ ret.posts[1].name = call.command
        /\ DictKeys(ret.posts[1].params) = Range(COMMAND_SPECS[call.command].required)
        /\ ~(IsFailure(ret.value) /\ StartsWith(ret.value.items[1].v.s, "Invalid params"))
        /\ ~(IsFailure(ret.value) /\ StartsWith(ret.value.items[1].v.s, "Unknown command"))
        /\ DictKeys(ret.request.args) = {"server"} \cup Range(COMMAND_SPECS[call.command].required)
        /\ Len(ret.tools) = Cardinality(DOMAIN COMMAND_SPECS)
        /\ {ret.tools[i].function.name : i \in DOMAIN ret.tools} = DOMAIN COMMAND_SPECS
        /\ \A i \in DOMAIN ret.tools :
              Range(ret.tools[i].function.parameters.required)
                  \subseteq DictKeys(ret.tools[i].function.parameters.properties)

\* C12 witness: the request built from the descriptor of get_process_list carries server
\* and instance, and was posted to the remote agent
C12_Witness ==
    /\ ret.done
    /\ call.command = "get_process_list"
    /\ ret.request.args = <<Pair("server", call.server), Pair("instance", call.text)>>
    /\ Len(ret.posts) = 1
    /\ ret.posts[1].params = <<Pair("instance", call.text)>>

\* the positions of the line breaks of a text, with the ends of the text
LineBreaks(s) == {0, Len(s) + 1} \cup {i \in 1..Len(s) : Ch(s, i) = "\n"}

\* the lines of a text
SplitLines(s) ==
    LET breaks == LineBreaks(s)
        start(k) == CHOOSE b \in breaks : Cardinality({c \in breaks : c < b}) = k - 1
    IN  [k \in 1..(Cardinality(breaks) - 1) |-> SubSeq(s, start(k) + 1, start(k + 1) - 1)]

\* the text with each of its braces written twice
RECURSIVE Doubled(_)
Doubled(s) ==
    IF s = "" THEN ""
    ELSE IF Len(s) = 1 THEN (IF s \in {"{", "}"} THEN s \o s ELSE s)
    ELSE Doubled(SubSeq(s, 1, Len(s) \div 2)) \o Doubled(SubSeq(s, Len(s) \div 2 + 1, Len(s)))

\* the length of the run of the character c that starts at position i
RECURSIVE RunLength(_, _, _)
RunLength(s, i, c) == IF Ch(s, i) = c THEN 1 + RunLength(s, i + 1, c) ELSE 0

\* every maximal run of an opening or of a closing brace has even length
NoSingleBrace(s) ==
    \A i \in 1..Len(s) : \A c \in {"{", "}"} :
        (Ch(s, i) = c /\ Ch(s, i - 1) # c) => RunLength(s, i, c) % 2 = 0

\* C13: the rendered catalog has one line per registered command, in registry order, of
\* the form '- <name>: <description>, params: <params>', and every brace of the unescaped
\* rendering is doubled, so the output holds no single '{' or '}'.
C13_CatalogEscaped ==
    ret.done =>
        LET lines == SplitLines(ret.value)
        IN  /\ Len(lines) = Len(call.specs)
            /\ \A i \in DOMAIN call.specs :
                  lines[i] = Doubled("- " \o call.specs[i].name \o ": "
                                     \o call.specs[i].description \o ", params: "
                                     \o PyRepr(call.specs[i].params))
            /\ NoSingleBrace(ret.value)

\* C13 witness: the catalog of the registry of build_command_help
C13_Witness ==
    /\ ret.done
    /\ call.specs = TEMPLATE_COMMAND_SPECS
    /\ ret.value = "- cpu: Get current CPU usage, params: {{}}\n"
                   \o "- memory: Get current memory usage, params: {{}}\n"
                   \o "- get_process_list: Get list of running processes for a given instance, params: {{'instance': '00'}}\n"
                   \o "- disk_usage: Get disk usage stats for a mount point, params: {{'mount': '/hana'}}"

\* the generation-service calls that were answered without a tool request
FinalAnswerEvents == {i \in LlmEvents : ~trace[i].resp.fault /\ trace[i].resp.tool_calls = <<>>}

\* the text of a generation-service output
TextOf(resp) == IF resp.content = None THEN "" ELSE resp.content[1]

\* the text without its leading and trailing whitespace
Trimmed(s) ==
    LET inner == {i \in 1..Len(s) : ~IsSpace(Ch(s, i))}
    IN  IF inner = {} THEN ""
        ELSE SubSeq(s, CHOOSE i \in inner : \A j \in inner : i <= j,
                       CHOOSE i \in inner : \A j \in inner : i >= j)

\* C14 (as stated): a generation-service output without a tool request ends chat() at that
\* step in FinalAnswer: chat() returns exactly that output's text, executes no tool and
\* makes no further generation-service call, also when the text is empty and when the
\* answer arrives on the last permitted step.
C14_FinalAnswerExactText ==
    \A i \in FinalAnswerEvents :
        /\ i = Len(trace)
        /\ outcome = "FinalAnswer"
        /\ pc = "done" => returned = Some(TextOf(trace[i].resp))

\* C14 (amended): as stated, except that chat() returns the output's text with its leading
\* and trailing whitespace removed.
C14_FinalAnswerStrippedText ==
    \A i \in FinalAnswerEvents :
        /\ i = Len(trace)
        /\ outcome = "FinalAnswer"
        /\ pc \in {"exit", "done"}
        /\ pc = "done" =>
              /\ returned = Some(Trimmed(TextOf(trace[i].resp)))
              /\ TextOf(trace[i].resp) = "" => returned = Some("")
              /\ ~StartsWith(returned[1], "Unable to complete request")

\* C14 witness: the answer came on the last permitted step, with whitespace around it
C14_Witness ==
    /\ pc = "done"
    /\ max_steps >= 2
    /\ LlmCalls = max_steps
    /\ Len(trace) \in FinalAnswerEvents
    /\ trace[Len(trace)].resp.content = Some(" All instances are running.\n")
    /\ returned = Some("All instances are running.")

\* C15: for every tool request the loop processes, the outbound call to the remote agent
\* is issued exactly once if the request passes validation and not at all if the command
\* is unknown or a required parameter is missing; so the number of outbound calls equals
\* the number of validated tool requests.
C15_OnePostPerValidRequest ==
    /\ \A i \in ExecEvents :
          /\ IsValidRequest(trace[i].tool_call) =>
                /\ i + 1 \in PostEvents
                /\ i + 2 \notin PostEvents
          /\ ~IsValidRequest(trace[i].tool_call) => i + 1 \notin PostEvents
    /\ \A p \in PostEvents : p - 1 \in ExecEvents
    /\ Cardinality(PostEvents)
          = Cardinality({i \in ExecEvents : IsValidRequest(trace[i].tool_call)})

\* C15 witness: a run with a rejected request, an unknown command and a request that was
\* posted
C15_Witness ==
    /\ pc = "done"
    /\ Cardinality(PostEvents) = 1
    /\ Cardinality(ExecEvents) = 3
    /\ \E i \in ExecEvents : trace[i].tool_call.name = "reboot"
    /\ \E i \in ExecEvents : trace[i].tool_call.name = "get_process_list"

\* the tool executions whose outbound call met a transport failure
FailedExecs == {i \in ExecEvents : trace[i].remote # None /\ trace[i].remote[1] \in ConnectionFaults}

\* C16: a transport failure of a tool execution never escapes chat() as a raised fault and
\* is never dropped: the Failure result is folded into the working context as a tool
\* message, the loop goes on to the next generation-service call whenever step budget
\* remains, and a tool failure alone never ends the invocation with an error outcome.
C16_ToolFailureIsFolded ==
    /\ FailedExecs # {} => pc # "raised"
    /\ \A i \in FailedExecs :
          /\ \E m \in ToolMessagesFor(trace[i].tool_call) :
                messages[m].content = "{\"error\": \"" \o trace[i].remote[1].text \o "\"}"
          /\ pc = "done" =>
                /\ (\E j \in LlmEvents : j > i) \/ LlmCalls = max_steps
                /\ outcome = "TransportError" =>
                      (Len(trace) \in LlmEvents /\ trace[Len(trace)].resp.fault)
                /\ outcome = "StepBudgetExceeded" => LlmCalls = max_steps
                /\ outcome = "FinalAnswer" => Len(trace) \in FinalAnswerEvents

\* C16 witness: a tool call timed out, the failure is in the working context, and the
\* generation service was called again and answered
C16_Witness ==
    /\ pc = "done"
    /\ outcome = "FinalAnswer"
    /\ \E i \in FailedExecs :
          /\ trace[i].remote[1].kind = "Timeout"
          /\ \E j \in LlmEvents : j > i
          /\ \E m \in ToolMessagesFor(trace[i].tool_call) :
                messages[m].content = "{\"error\": \"Read timed out. (read timeout=5)\"}"

\* C17: whatever the generation service and the tools do (tool requests, final answers,
\* faults) and for any max_steps N >= 0, chat() terminates after at most N calls of the
\* generation service; with N = 0 it makes no such call and ends in StepBudgetExceeded.
C17_TerminatesWithinBudget ==
    /\ [](LlmCalls <= max_steps)
    /\ [](pc = "done" /\ max_steps = 0 =>
             /\ LlmCalls = 0
             /\ outcome = "StepBudgetExceeded"
             /\ returned = Some(BudgetMessage(0)))
    /\ <>(pc = "done")

\* C17 witness: an invocation that used its whole budget on tool turns, one of which met
\* a failing tool, and has returned
C17_Witness ==
    /\ pc = "done"
    /\ max_steps = MaxSteps
    /\ LlmCalls = max_steps
    /\ outcome = "StepBudgetExceeded"
    /\ FailedExecs # {}

\* C19: no outbound tool call is ever issued for a request that does not name a server:
\* every POST follows a tool request whose arguments carry 'server', and a request without
\* one never reaches the remote agent.
C19_NoPostWithoutServer ==
    /\ \A p \in PostEvents :
          /\ p - 1 \in ExecEvents
          /\ DictHas(trace[p - 1].tool_call.args, "server")
          /\ trace[p].url = Url(DictGet(trace[p - 1].tool_call.args, "server"))
    /\ \A i \in ExecEvents :
          ~DictHas(trace[i].tool_call.args, "server") => trace[i].remote = None

\* the entry main() appends for what the user typed, blanks at both ends removed
UserEntry(text) == [role |-> "user", content |-> Trimmed(text)]

\* the history chat() is called with: the one main() is about to pass, or the one the
\* running invocation was given
CallHistory == IF pc = "idle" THEN chat_history ELSE history0

Other(t) == CHOOSE u \in Invocations : u # t

\* the final message an invocation that has returned appended to the history
FinalMessage(t) == [role |-> "assistant", content |-> returned[t][1]]

\* the events of invocation t that add a message to its working context, in order
OwnEvents(t) ==
    SelectSeq(trace[t], LAMBDA e : \/ e.ev = "exec"
                                   \/ e.ev = "llm" /\ ~e.resp.fault)

\* message m is the one event e of invocation t adds
IsMessageOf(m, e) ==
    IF e.ev = "exec"
    THEN m.role = "tool" /\ m.tool_call_id = e.tool_call.id
    ELSE /\ m.role = "assistant"
         /\ IF e.resp.tool_calls = <<>>
            THEN m.content = Trimmed(TextOf(e.resp))
            ELSE [i \in DOMAIN m.tool_calls |-> m.tool_calls[i].id]
                    = [i \in DOMAIN e.resp.tool_calls |-> e.resp.tool_calls[i].id]

\* C18: two interleaved chat() invocations on one agent and one caller-owned history do
\* not interfere: the working context of each is the history as it was when it started
\* followed by its own assistant and tool messages and nothing else, every context it
\* sends to the generation service is of that form, and when both have returned the
\* history is the original entries followed by both final messages, in the order of
\* return, none lost or overwritten.
C18_InvocationsDoNotInterfere ==
    /\ \A t \in Invocations :
          pc[t] # "idle" =>
             LET own == OwnEvents(t)
                 base == Len(history0[t])
             IN  /\ \/ history0[t] = call.chat_history
                    \/ /\ returned[Other(t)] # None
                       /\ history0[t] = Append(call.chat_history, FinalMessage(Other(t)))
                 /\ Len(messages[t]) = base + Len(own)
                 /\ SubSeq(messages[t], 1, base) = history0[t]
                 /\ \A k \in DOMAIN own : IsMessageOf(messages[t][base + k], own[k])
                 /\ \A i \in DOMAIN trace[t] :
                       trace[t][i].ev = "llm" =>
                          /\ Len(trace[t][i].messages) <= Len(messages[t])
                          /\ trace[t][i].messages
                                = SubSeq(messages[t], 1, Len(trace[t][i].messages))
    /\ Len(chat_history) = Len(call.chat_history)
                              + Cardinality({t \in Invocations : pc[t] = "done"})
    /\ SubSeq(chat_history, 1, Len(call.chat_history)) = call.chat_history
    /\ (\A t \in Invocations : pc[t] = "done") =>
          \E t \in Invocations :
             chat_history = call.chat_history \o <<FinalMessage(t), FinalMessage(Other(t))>>

\* C18 witness: both invocations started from the same history, both executed a tool while
\* the other was running, and both have returned, A with its answer and B with its own
C18_Witness ==
    /\ \A t \in Invocations :
          /\ pc[t] = "done"
          /\ history0[t] = call.chat_history
          /\ outcome[t] = "FinalAnswer"
          /\ \E i \in DOMAIN trace[t] : trace[t][i].ev = "post"
    /\ chat_history = call.chat_history
                         \o <<[role |-> "assistant", content |-> "All instances are running."],
                              [role |-> "assistant", content |-> "CPU is fine"]>>

====
